---- MODULE Spec2Model ----
(***************************************************************************)
(* Buy vs Rent NPV simulator (src/app.py): the script's computation, from  *)
(* the sidebar inputs to the Monte Carlo run, as a state machine.          *)
(*                                                                         *)
(* Numbers.  The script computes in IEEE doubles.  Here every amount is an *)
(* integer number of money units (one unit = MoneyUnit rupees) and every   *)
(* rate or growth factor is a fixed-point number with FX = 1.0; products   *)
(* and quotients are rounded to the nearest unit (RoundDiv), as a double   *)
(* rounds to the nearest representable value.  Percent inputs are whole    *)
(* percents.                                                               *)
(***************************************************************************)
EXTENDS Integers, Sequences, FiniteSets

\* ------------------------------------------------------------------ bounds
\* largest holding period explored (the slider goes to ExitYearMax)
ExitYearBound == 4
\* number of Monte Carlo iterations explored (the loop runs sims times)
MaxSims == 2

\* ------------------------------------------------------- fixed-point scale
FX == 100 * 100
MoneyUnit == 2 * 100

RoundDiv(a, b) == (a + (b \div 2)) \div b

Min(a, b) == IF a <= b THEN a ELSE b

\* base ** k for a fixed-point base and an integer k >= 0 (by squaring)
RECURSIVE PowFX(_, _)
PowFX(base, k) ==
    IF k <= 0 THEN FX
    ELSE LET half == PowFX(base, k \div 2)
             sq == RoundDiv(half * half, FX)
         IN  IF k % 2 = 0 THEN sq ELSE RoundDiv(sq * base, FX)

\* 1 + p/100 for a percentage p
OnePlusPct(p) == FX + p * (FX \div 100)

\* --------------------------------------------------------- sidebar inputs
\* The number inputs accept any number.  price, loan_rate, tenure and
\* exit_year vary; the other widgets stay at their default (down_pct in
\* percent, amounts in money units).  A loan rate of 0 and a tenure of 0 are
\* the inputs that make the EMI denominator 0.
MonthsPerYear == 12
ExitYearMin == 3
ExitYearMax == 25

PriceSet == {-(8000000 \div MoneyUnit), 8000000 \div MoneyUnit}
LoanRateSet == {0, 12}
TenureSet == {0, 2, 5}
ExitYearSet == ExitYearMin .. Min(ExitYearBound, ExitYearMax)

down_pct == 20
rent0 == 25000 \div MoneyUnit
rent_growth == 5
house_growth == 5
inv_return == 10
inflation == 5
disc == 8
buy_commission == 1
sell_commission == 1
maintenance_pct == 1
tax_rate == 30
interest_limit == 200000 \div MoneyUnit
principal_limit == 150000 \div MoneyUnit

VARIABLES
    pc,          \* position of the script
    error,       \* "none", or the exception that ended the script run
    price, loan_rate, tenure, exit_year,
    loan_amt, r, n, emi,
    balance, schedule, m,
    frame,       \* compute_npv's arguments and locals at its latest return
    rows, rent_info,
    sens,        \* the sensitivity slider g and the pair compute_npv returned
    results, prob

vars == <<pc, error, price, loan_rate, tenure, exit_year,
          loan_amt, r, n, emi, balance, schedule, m,
          frame, rows, rent_info, sens, results, prob>>

inputs == <<price, loan_rate, tenure, exit_year>>
loan == <<loan_amt, r, n, emi>>
outputs == <<frame, rows, rent_info, sens, results, prob>>

NoFrame == [hg |-> 0, rg |-> 0, yrs |-> 0, cf_buy |-> <<>>, cf_rent |-> <<>>,
            b |-> 0, rn |-> 0]

Init ==
    /\ pc = "emi"
    /\ error = "none"
    /\ price \in PriceSet
    /\ loan_rate \in LoanRateSet
    /\ tenure \in TenureSet
    /\ exit_year \in ExitYearSet
    /\ loan_amt = 0
    /\ r = 0
    /\ n = 0
    /\ emi = 0
    /\ balance = 0
    /\ schedule = <<>>
    /\ m = 0
    /\ frame = NoFrame
    /\ rows = <<>>
    /\ rent_info = FALSE
    /\ sens = <<>>
    /\ results = <<>>
    /\ prob = <<>>

\* ---------------------------------------------------------------- EMI
LoanAmt(p) == RoundDiv(p * (100 - down_pct), 100)
MonthlyRate(lr) == RoundDiv(RoundDiv(lr * FX, 100), MonthsPerYear)
EmiDenominator(rr, nn) == PowFX(FX + rr, nn) - FX
Emi(la, rr, nn) ==
    RoundDiv(RoundDiv(la * rr, FX) * PowFX(FX + rr, nn), EmiDenominator(rr, nn))

ComputeEMI ==
    /\ pc = "emi"
    /\ loan_amt' = LoanAmt(price)
    /\ r' = MonthlyRate(loan_rate)
    /\ n' = tenure * MonthsPerYear
    /\ IF EmiDenominator(r', n') = 0
       THEN /\ error' = "ZeroDivisionError"
            /\ pc' = "crashed"
            /\ UNCHANGED <<emi, balance>>
       ELSE /\ emi' = Emi(loan_amt', r', n')
            /\ balance' = loan_amt'
            /\ pc' = "amort"
            /\ UNCHANGED error
    /\ UNCHANGED <<inputs, schedule, m, outputs>>

\* ------------------------------------------------------- amortization
\* AmortEntry charging interest on the original loan instead of the balance
AmortEntryFlatInterest(bal, mm) ==
    LET interest == RoundDiv(loan_amt * r, FX)
        principal == emi - interest
        newbal == bal - principal
    IN  [Year |-> <<mm, MonthsPerYear>>, Interest |-> interest,
         Principal |-> principal, Balance |-> newbal,
         Equity |-> price - newbal]

\* one row of the schedule, from the balance before the payment of month mm
AmortEntry(bal, mm) ==
    LET interest == RoundDiv(bal * r, FX)
        principal == emi - interest
        newbal == bal - principal
    IN  [Year |-> <<mm, MonthsPerYear>>, Interest |-> interest,
         Principal |-> principal, Balance |-> newbal,
         Equity |-> price - newbal]

AmortStep ==
    /\ pc = "amort"
    /\ m < exit_year * MonthsPerYear
    /\ m' = m + 1
    /\ schedule' = Append(schedule, AmortEntry(balance, m'))
    /\ balance' = schedule'[Len(schedule')].Balance
    /\ pc' = IF m' = exit_year * MonthsPerYear THEN "scenarios" ELSE "amort"
    /\ UNCHANGED <<error, inputs, loan, outputs>>

\* ------------------------------------------------------- tax function
tax_saving(i, p) ==
    RoundDiv((Min(i, interest_limit) + Min(p, principal_limit)) * tax_rate, 100)

\* ------------------------------------------------------- NPV function
RECURSIVE SumSeq(_)
SumSeq(s) == IF s = <<>> THEN 0 ELSE Head(s) + SumSeq(Tail(s))

\* The Year column holds the double m/12, kept here as the fraction
\* <<m, 12>>: the quotient is exact when 12 divides m and lies strictly
\* between two integers otherwise, so comparing it with an integer k is
\* comparing m with 12*k.
YearGT(q, k) == q[1] > k * q[2]
YearLE(q, k) == q[1] <= k * q[2]

\* Yearly with the lower comparison written >= : month 12(y-1) is taken twice
YearlyClosed(y) ==
    SelectSeq(schedule, LAMBDA row : row.Year[1] >= (y - 1) * row.Year[2]
                                      /\ YearLE(row.Year, y))

\* sched[(sched["Year"]>y-1)&(sched["Year"]<=y)]
Yearly(y) ==
    SelectSeq(schedule, LAMBDA row : YearGT(row.Year, y - 1) /\ YearLE(row.Year, y))

Column(df, col) == [k \in 1 .. Len(df) |-> df[k][col]]

Downpayment == RoundDiv(price * down_pct, 100)
BuyComm == RoundDiv(price * buy_commission, 100)
Maintenance == RoundDiv(price * maintenance_pct, 100)

\* the rent outflow appended in iteration y
RentOutflow(rg, y) ==
    LET rent == RoundDiv(rent0 * PowFX(OnePlusPct(rg), y), FX)
    IN  -(rent * MonthsPerYear)

\* the buy outflow appended in iteration y
BuyOutflow(y) ==
    LET yearly == Yearly(y)
        interest_y == SumSeq(Column(yearly, "Interest"))
        principal_y == SumSeq(Column(yearly, "Principal"))
        tax == tax_saving(interest_y, principal_y)
    IN  -(emi * MonthsPerYear + Maintenance) + tax

Resale(hg, yrs) ==
    LET future_price == RoundDiv(price * PowFX(OnePlusPct(hg), yrs), FX)
    IN  RoundDiv(future_price * (100 - sell_commission), 100)

Invest(yrs) == RoundDiv(Downpayment * PowFX(OnePlusPct(inv_return), yrs), FX)

\* cf_buy[-1] += x
AddToLast(cfs, x) == [cfs EXCEPT ![Len(cfs)] = @ + x]

\* cf_buy when compute_npv returns
CfBuy(hg, yrs) ==
    LET upfront == <<-Downpayment - BuyComm>>
        yearly == [y \in 1 .. yrs |-> BuyOutflow(y)]
    IN  AddToLast(upfront \o yearly, Resale(hg, yrs))

\* cf_rent when compute_npv returns
CfRent(rg, yrs) ==
    AddToLast([y \in 1 .. yrs |-> RentOutflow(rg, y)], Invest(yrs))

\* real_disc, a percentage in fixed point
RealDisc ==
    (RoundDiv(OnePlusPct(disc) * FX, OnePlusPct(inflation)) - FX) * 100

\* the exponent enumerate() gives the element at position k (positions from 1)
NpvExponent(k) == k - 1

npv(rate, cfs) ==
    LET base == FX + RoundDiv(rate, 100)
    IN  SumSeq([k \in 1 .. Len(cfs) |->
                  RoundDiv(cfs[k] * FX, PowFX(base, NpvExponent(k)))])

compute_npv(hg, rg, yrs) ==
    LET buy == CfBuy(hg, yrs)
        rent == CfRent(rg, yrs)
    IN  [hg |-> hg, rg |-> rg, yrs |-> yrs, cf_buy |-> buy, cf_rent |-> rent,
         b |-> npv(RealDisc, buy), rn |-> npv(RealDisc, rent)]

\* ---------------------------------------------------------- scenarios
scenarios ==
    << [name |-> "Base", hg |-> house_growth, rg |-> rent_growth],
       [name |-> "Boom", hg |-> house_growth + 3, rg |-> rent_growth + 2],
       [name |-> "Crash", hg |-> house_growth - 3, rg |-> rent_growth - 1] >>

\* ScenarioRow with the difference taken the other way round
ScenarioRowSwapped(name, b, rn) ==
    [Scenario |-> name, NPVBuy |-> b, NPVRent |-> rn, BuyRent |-> rn - b]

ScenarioRow(name, b, rn) ==
    [Scenario |-> name, NPVBuy |-> b, NPVRent |-> rn, BuyRent |-> b - rn]

\* one iteration of the loop over scenarios.items(); the last one is followed
\* by the DataFrame and the "renting is better" notice
ScenarioStep ==
    /\ pc = "scenarios"
    /\ Len(rows) < Len(scenarios)
    /\ LET sc == scenarios[Len(rows) + 1]
           res == compute_npv(sc.hg, sc.rg, exit_year)
       IN  /\ frame' = res
           /\ rows' = Append(rows, ScenarioRow(sc.name, res.b, res.rn))
    /\ IF Len(rows') = Len(scenarios)
       THEN /\ rent_info' = (\E k \in 1 .. Len(rows') : rows'[k].BuyRent < 0)
            /\ pc' = "sensitivity"
       ELSE UNCHANGED <<rent_info, pc>>
    /\ UNCHANGED <<error, inputs, loan, balance, schedule, m, sens, results, prob>>

\* -------------------------------------------------------- sensitivity
SliderMin == -5
SliderMax == 15
SliderSet == {SliderMin, house_growth, SliderMax}

Sensitivity ==
    /\ pc = "sensitivity"
    /\ \E g \in SliderSet :
          LET res == compute_npv(g, rent_growth, exit_year)
          IN  /\ frame' = res
              /\ sens' = <<g, res.b, res.rn>>
    /\ pc' = "button"
    /\ UNCHANGED <<error, inputs, loan, balance, schedule, m, rows, rent_info,
                   results, prob>>

\* -------------------------------------------------------- Monte Carlo
sims == 1000
Sigma == 2
\* standard normal deviates a draw may take (a double in the script)
Deviates == {-1, 1}
\* np.random.normal(loc, scale)
Normal(loc, scale) == {loc + scale * z : z \in Deviates}

Wins(res) == Cardinality({k \in 1 .. Len(res) : res[k] > 0})

ButtonNotPressed ==
    /\ pc = "button"
    /\ pc' = "done"
    /\ UNCHANGED <<error, inputs, loan, balance, schedule, m, outputs>>

ButtonPressed ==
    /\ pc = "button"
    /\ results' = <<>>
    /\ pc' = "montecarlo"
    /\ UNCHANGED <<error, inputs, loan, balance, schedule, m, frame, rows,
                   rent_info, sens, prob>>

\* one iteration of the simulation loop; after the last one, prob
MonteCarloStep ==
    /\ pc = "montecarlo"
    /\ Len(results) < Min(sims, MaxSims)
    /\ \E hg \in Normal(house_growth, Sigma), rg \in Normal(rent_growth, Sigma) :
          LET res == compute_npv(hg, rg, exit_year)
          IN  /\ frame' = res
              /\ results' = Append(results, res.b - res.rn)
    /\ IF Len(results') = Min(sims, MaxSims)
       THEN /\ prob' = <<Wins(results'), Len(results')>>
            /\ pc' = "done"
       ELSE UNCHANGED <<prob, pc>>
    /\ UNCHANGED <<error, inputs, loan, balance, schedule, m, rows, rent_info, sens>>

Next ==
    \/ ComputeEMI
    \/ AmortStep
    \/ ScenarioStep
    \/ Sensitivity
    \/ ButtonNotPressed
    \/ ButtonPressed
    \/ MonteCarloStep

\* ================================================================ claims
Returned == frame.yrs > 0
ScheduleBuilt == pc \in {"scenarios", "sensitivity", "button", "montecarlo", "done"}
Last(cfs) == cfs[Len(cfs)]
ValidInput == price > 0 /\ loan_rate > 0 /\ tenure > 0

\* C1: for every holding period and growth pair, cf_buy and cf_rent have the
\* same length when compute_npv returns, and the last element of each carries
\* its terminal adjustment (resale for buy, grown down payment for rent).
\* Stated for the runs with valid inputs.
C1_SeriesEqualLength ==
    (ValidInput /\ Returned) =>
        /\ Len(frame.cf_buy) = Len(frame.cf_rent)
        /\ Last(frame.cf_buy) = BuyOutflow(frame.yrs) + Resale(frame.hg, frame.yrs)
        /\ Last(frame.cf_rent) = RentOutflow(frame.rg, frame.yrs) + Invest(frame.yrs)

\* C2: the last element of cf_buy receives the resale price net of the selling
\* commission minus the loan balance outstanding at month exit_year*12,
\* whenever that balance is not zero.  Stated for the runs with valid inputs
\* in which part of the loan is still owed at the sale.
OutstandingBalance == schedule[exit_year * MonthsPerYear].Balance

C2_ResaleNetOfLoanBalance ==
    (ValidInput /\ Returned /\ OutstandingBalance > 0) =>
        Last(frame.cf_buy) =
            BuyOutflow(frame.yrs) + Resale(frame.hg, frame.yrs) - OutstandingBalance

\* C3: the outflow of holding year y, of the rent series as of the buy series,
\* is the element npv divides by (1+rate)^y (on the last year together with
\* the terminal adjustment); exponent 0 is the upfront cost.  Stated for the
\* runs with valid inputs.
HasExponent(cfs, e) == \E k \in 1 .. Len(cfs) : NpvExponent(k) = e
AtExponent(cfs, e) == cfs[CHOOSE k \in 1 .. Len(cfs) : NpvExponent(k) = e]

C3_MatchingPeriodSemantics ==
    (ValidInput /\ Returned) =>
        \A yy \in 1 .. frame.yrs :
            /\ HasExponent(frame.cf_buy, yy)
            /\ AtExponent(frame.cf_buy, yy) =
                   BuyOutflow(yy)
                   + (IF yy = frame.yrs THEN Resale(frame.hg, frame.yrs) ELSE 0)
            /\ HasExponent(frame.cf_rent, yy)
            /\ AtExponent(frame.cf_rent, yy) =
                   RentOutflow(frame.rg, yy)
                   + (IF yy = frame.yrs THEN Invest(frame.yrs) ELSE 0)

\* C4: with a loan interest rate of 0 and n > 0 the EMI is principal / n,
\* computed without a division by zero, and the balance then falls by the
\* same amount every month.
C4_ZeroRateEmi ==
    (loan_rate = 0 /\ tenure > 0 /\ price > 0 /\ pc # "emi") =>
        /\ error = "none"
        /\ emi = RoundDiv(loan_amt, n)
        /\ \A k \in 1 .. Len(schedule) : schedule[k].Principal = emi

\* C5: invalid parameters (tenure <= 0, a negative price, a rate that makes the
\* EMI denominator zero) are checked before the EMI, the schedule and the NPVs
\* are computed, and reported as a structured failure; the run neither goes on
\* nor ends in an unhandled error.
InvalidParameter ==
    \/ tenure <= 0
    \/ price < 0
    \/ EmiDenominator(MonthlyRate(loan_rate), tenure * MonthsPerYear) = 0

C5_InvalidParameterReported ==
    (InvalidParameter /\ pc # "emi") =>
        /\ error = "InvalidParameter"
        /\ schedule = <<>>
        /\ frame = NoFrame

\* C6: for price > 0, rate > 0, tenure > 0 and every holding period of the
\* slider, the recorded balance never rises from one month to the next and is
\* never negative (up to the rounding of the k payments made so far).
RoundingSlack(k) == 2 * k

C6_BalanceNeverNegative ==
    ValidInput =>
        \A k \in 1 .. Len(schedule) :
            /\ schedule[k].Balance >= -RoundingSlack(k)
            /\ schedule[k].Balance <=
                   (IF k = 1 THEN loan_amt ELSE schedule[k - 1].Balance)

\* C7: the yearly windows of compute_npv partition the schedule: every month
\* 1..exit_year*12 lies in the window of exactly one year y of 1..exit_year,
\* the window of year y is the months 12(y-1)+1..12y, and the tax relief of
\* year y is computed from the sums over that window.
YearlyMonths(y) == LET yearly == Yearly(y) IN {yearly[j].Year[1] : j \in 1 .. Len(yearly)}

SumMonths(col, lo, hi) == SumSeq([k \in 1 .. (hi - lo + 1) |-> schedule[lo + k - 1][col]])

WindowTax(y) ==
    tax_saving(SumMonths("Interest", MonthsPerYear * (y - 1) + 1, MonthsPerYear * y),
               SumMonths("Principal", MonthsPerYear * (y - 1) + 1, MonthsPerYear * y))

C7_YearWindowsPartition ==
    ScheduleBuilt =>
        /\ LET window == [y \in 1 .. exit_year |-> YearlyMonths(y)]
           IN  /\ \A k \in 1 .. exit_year * MonthsPerYear :
                      Cardinality({y \in 1 .. exit_year : k \in window[y]}) = 1
               /\ \A y \in 1 .. exit_year :
                      window[y] = (MonthsPerYear * (y - 1) + 1) .. (MonthsPerYear * y)
        /\ \A y \in 1 .. exit_year : Len(Yearly(y)) = MonthsPerYear
        /\ Returned =>
               \A y \in 1 .. frame.yrs :
                   frame.cf_buy[y + 1]
                   - (IF y = frame.yrs THEN Resale(frame.hg, frame.yrs) ELSE 0)
                       = -(emi * MonthsPerYear + Maintenance) + WindowTax(y)

C7_Witness ==
    /\ pc = "sensitivity"
    /\ frame.yrs = exit_year
    /\ WindowTax(2) > 0
    /\ SumMonths("Interest", MonthsPerYear + 1, 2 * MonthsPerYear) > 0

\* C8: the scenario table has one row per scenario, in the order Base, Boom,
\* Crash, and each row holds the pair compute_npv returns for that scenario's
\* growth pair and their difference, buy minus rent.
ScenarioOrder == <<"Base", "Boom", "Crash">>

C8_ScenarioRows ==
    /\ Len(rows) <= Len(ScenarioOrder)
    /\ pc \in {"sensitivity", "button", "montecarlo", "done"}
           => Len(rows) = Len(ScenarioOrder)
    /\ \A i \in 1 .. Len(rows) :
           LET res == compute_npv(scenarios[i].hg, scenarios[i].rg, exit_year)
           IN  /\ rows[i].Scenario = ScenarioOrder[i]
               /\ scenarios[i].name = ScenarioOrder[i]
               /\ rows[i].NPVBuy = res.b
               /\ rows[i].NPVRent = res.rn
               /\ rows[i].BuyRent = rows[i].NPVBuy - rows[i].NPVRent

C8_Witness ==
    /\ pc = "sensitivity"
    /\ Len(rows) = 3
    /\ rows[1].BuyRent # 0
    /\ rows[2].BuyRent # rows[1].BuyRent
    /\ rows[3].BuyRent # rows[2].BuyRent

\* C10: every recorded schedule entry has interest = (balance before the
\* payment) * r, interest + principal = EMI, balance = previous balance -
\* principal and equity + balance = price; the entries are in increasing
\* period order and, once the loop has ended, there are exit_year*12 of them.
BalanceBefore(k) == IF k = 1 THEN loan_amt ELSE schedule[k - 1].Balance

C10_AmortizationEntries ==
    /\ Len(schedule) = m
    /\ m <= exit_year * MonthsPerYear
    /\ ScheduleBuilt => Len(schedule) = exit_year * MonthsPerYear
    /\ \A k \in 1 .. Len(schedule) :
           /\ schedule[k].Interest = RoundDiv(BalanceBefore(k) * r, FX)
           /\ schedule[k].Interest + schedule[k].Principal = emi
           /\ schedule[k].Balance = BalanceBefore(k) - schedule[k].Principal
           /\ schedule[k].Equity + schedule[k].Balance = price
           /\ schedule[k].Year = <<k, MonthsPerYear>>
           /\ k > 1 => schedule[k].Year[1] * schedule[k - 1].Year[2]
                           > schedule[k - 1].Year[1] * schedule[k].Year[2]

C10_Witness ==
    /\ pc = "scenarios"
    /\ Len(schedule) = exit_year * MonthsPerYear
    /\ schedule[1].Interest > 0
    /\ schedule[2].Interest < schedule[1].Interest

Spec == Init /\ [][Next]_vars
====
